---- MODULE Spec2Model ----
(***************************************************************************)
(* Model of alphaess.py: the AlphaESS cloud API client (AlphaESSAPI), the  *)
(* poll loop (poll_alphaess), the console and e-Paper renderers and the    *)
(* two gpiozero button handlers.                                           *)
(*                                                                         *)
(* Threads.  poll_alphaess runs on the main thread (asyncio.run).  The     *)
(* when_pressed handlers run on the pin factory's callback thread, one     *)
(* press at a time, concurrently with the main thread.  The source holds   *)
(* no lock, so every read or write of a module global is one step.         *)
(***************************************************************************)
EXTENDS Integers, Sequences, FiniteSets, TLC

(***************************************************************************)
(* Bounds of the model.                                                    *)
(***************************************************************************)
MaxTicks == 2
MaxPresses == 2
MaxSystems == 2
MaxClock == 2

(***************************************************************************)
(* Python values, tagged with their type.                                  *)
(***************************************************************************)
None == [t |-> "None", v |-> 0]
PyInt(n) == [t |-> "int", v |-> n]
PyStr(s) == [t |-> "str", v |-> s]
PyDict(d) == [t |-> "dict", v |-> d]
PyList(s) == [t |-> "list", v |-> s]

IsNone(x) == x.t = "None"

\* The outcome of a call: a returned value or a raised exception.
Return(x) == [kind |-> "return", value |-> x]
Raise(e) == [kind |-> "raise", value |-> PyStr(e)]

\* dict.get(key): the value, or None when the key is missing;
\* AttributeError when the receiver is not a dict (None has no .get).
DictGet(d, key) ==
    IF d.t # "dict" THEN Raise("AttributeError")
    ELSE IF key \in DOMAIN d.v THEN Return(d.v[key])
    ELSE Return(None)

\* x < 0 in Python 3: TypeError unless x is a number.
LessThanZero(x) ==
    IF x.t # "int" THEN Raise("TypeError")
    ELSE Return(x.v < 0)

\* x * -1 in Python 3: TypeError unless x is a number.
TimesMinusOne(x) ==
    IF x.t # "int" THEN Raise("TypeError")
    ELSE Return(PyInt(x.v * (-1)))

\* d[key]: KeyError when the key is missing, TypeError when d is no dict.
Subscript(d, key) ==
    IF d.t # "dict" THEN Raise("TypeError")
    ELSE IF key \in DOMAIN d.v THEN Return(d.v[key])
    ELSE Raise("KeyError")

(***************************************************************************)
(* The vendor's HTTP responses.  A response has an HTTP status, a body     *)
(* that aiohttp's resp.json() can or cannot parse, and (when it parses)    *)
(* the JSON envelope: code, and data and/or msg.                           *)
(***************************************************************************)
HTTP_OK == 200
CODE_OK == 200
HttpStatuses == {HTTP_OK, 500}
VendorErrorCodes == {6001}

Envelopes(datas) ==
    {PyDict([code |-> PyInt(CODE_OK), data |-> d]) : d \in datas}
    \cup {PyDict([code |-> PyInt(c), msg |-> PyStr("error"), data |-> d]) :
             c \in VendorErrorCodes, d \in datas}
    \cup {PyDict([code |-> PyInt(c), msg |-> PyStr("error")]) : c \in VendorErrorCodes}
    \cup {PyDict([code |-> PyInt(c)]) : c \in VendorErrorCodes}

HttpResponses(datas) ==
    [status : HttpStatuses, parseable : BOOLEAN, body : Envelopes(datas)]

\* A well-formed vendor envelope: code, and msg when the code reports failure.
WellFormed(resp) ==
    /\ resp.parseable
    /\ "code" \in DOMAIN resp.body.v
    /\ resp.body.v["code"].v # CODE_OK => "msg" \in DOMAIN resp.body.v

\* Payloads of getLastPowerData: ppv, soc, pgrid, pbat, pload.
PowerA == PyDict([ppv |-> PyInt(10), soc |-> PyInt(50), pgrid |-> PyInt(-5),
                  pbat |-> PyInt(5), pload |-> PyInt(20)])
\* A success payload that lacks an expected field.
PowerNoBat == PyDict([ppv |-> PyInt(30), soc |-> PyInt(60), pgrid |-> PyInt(5),
                      pload |-> PyInt(40)])
PowerPayloads == {None, PowerA, PowerNoBat}

\* Payloads of getOneDateEnergyBySn: epv, eOutput, eInput.
EnergyA == PyDict([epv |-> PyInt(1), eOutput |-> PyInt(2), eInput |-> PyInt(3)])
EnergyPayloads == {None, EnergyA}

\* Payloads of getEssList: one system object, or an array of them.
Serials == {"SN1", "SN2"}
Systems == {PyDict([sysSn |-> PyStr(s), popv |-> PyInt(5)]) : s \in Serials}
SystemLists ==
    UNION {[1..n -> Systems] : n \in 0..MaxSystems}
EssPayloads == Systems \cup {PyList(l) : l \in SystemLists}

(***************************************************************************)
(* AlphaESSAPI                                                             *)
(***************************************************************************)
\* configuration.conf: absent, or its lines (without the line ends).
NoConfigFile == [exists |-> FALSE, lines |-> <<>>]
ConfigFile(lines) == [exists |-> TRUE, lines |-> lines]

ValidLines == <<"https://host/api", "appid1", "secret1", "SN1">>
OtherLines == <<"https://host/api", "appid2", "secret2", "SN2">>

\* A stand-in for a secret with a character outside ASCII.
NonAscii == {"secret-e-acute"}

\* The files the model starts from: none, the first n lines of a complete
\* file, a file whose second line is blank, a file whose secret is not
\* ASCII, and two complete files.
ConfigFiles ==
    {NoConfigFile}
    \cup {ConfigFile(SubSeq(ValidLines, 1, n)) : n \in 0..Len(ValidLines)}
    \cup {ConfigFile(<<ValidLines[1], " ", ValidLines[3], ValidLines[4]>>),
          ConfigFile(<<ValidLines[1], ValidLines[2], "secret-e-acute", ValidLines[4]>>),
          ConfigFile(OtherLines)}

\* file.readline(): the next line, '' at the end of the file.
ReadLine(file, i) == IF i <= Len(file.lines) THEN file.lines[i] ELSE ""

\* str.strip(): a line of white space only becomes ''; the other lines of
\* ConfigFiles have no white space at their ends.
Strip(line) == IF line \in {"", " "} THEN "" ELSE line

\* The object before AlphaESSAPI() has run.
NotConstructed ==
    [constructed |-> FALSE, BASEURL |-> "", APPID |-> "", APPSECRET |-> "",
     SERIALNUMBER |-> ""]

\* AlphaESSAPI.__init__: open raises on a missing file; each field is the
\* next line stripped, whatever it holds.
AlphaESSAPI_init(file) ==
    IF ~file.exists THEN Raise("FileNotFoundError")
    ELSE Return([constructed |-> TRUE,
                 BASEURL |-> Strip(ReadLine(file, 1)),
                 APPID |-> Strip(ReadLine(file, 2)),
                 APPSECRET |-> Strip(ReadLine(file, 3)),
                 SERIALNUMBER |-> Strip(ReadLine(file, 4))])

\* time.sleep(30): the clock of the model counts sleeps.
SleepSeconds == 30

\* int(time.time()) at clock t, counted from the start of the process.
UnixTime(t) == SleepSeconds * t

\* hashlib.sha512(b).hexdigest(): one digest per input.
sha512_hexdigest(s) == "sha512(" \o s \o ")"

\* __get_signature: encode("ascii") raises on any other character.
get_signature(self, timestamp) ==
    IF self.APPID \in NonAscii \/ self.APPSECRET \in NonAscii
    THEN Raise("UnicodeEncodeError")
    ELSE Return(sha512_hexdigest(self.APPID \o self.APPSECRET \o timestamp))

\* request_headers with a signature made once, at clock 0, and sent again
\* with every later request.
request_headers_reused(self, t) ==
    LET timestamp == ToString(UnixTime(t))
        sign == get_signature(self, ToString(UnixTime(0)))
    IN  IF sign.kind = "raise" THEN sign
        ELSE Return([appId |-> self.APPID, timeStamp |-> timestamp,
                     sign |-> sign.value])

\* Lines 61-64 and 75-78: timestamp, sign and headers of a request made at
\* clock t.
request_headers(self, t) ==
    LET timestamp == ToString(UnixTime(t))
        sign == get_signature(self, timestamp)
    IN  IF sign.kind = "raise" THEN sign
        ELSE Return([appId |-> self.APPID, timeStamp |-> timestamp,
                     sign |-> sign.value])

\* The request session.get or session.post sends, or the exception raised
\* before anything is sent: by the signing, or by aiohttp on a URL with no
\* host (f"{self.BASEURL}/{path}" with an empty BASEURL).
http_request(method, path, self, t) ==
    LET headers == request_headers(self, t) IN
    IF headers.kind = "raise" THEN headers
    ELSE IF self.BASEURL = "" THEN Raise("InvalidURL")
    ELSE Return([method |-> method, url |-> self.BASEURL \o "/" \o path,
                 headers |-> headers.value])

NoRequest ==
    [method |-> "none", url |-> "",
     headers |-> [appId |-> "", timeStamp |-> "", sign |-> ""]]

\* __get_request: resp.json() is awaited first and raises on a body that is
\* not JSON; then a 200 returns the parsed body and any other status logs
\* and falls off the end of the function (None).
get_request(resp) ==
    IF ~resp.parseable THEN Raise("ContentTypeError")
    ELSE IF resp.status = HTTP_OK THEN Return(resp.body)
    ELSE Return(None)

\* __post_request: the same steps over session.post.
post_request(resp) ==
    IF ~resp.parseable THEN Raise("ContentTypeError")
    ELSE IF resp.status = HTTP_OK THEN Return(resp.body)
    ELSE Return(None)

\* envelope_data without the test of r['code']: the payload is returned
\* whenever the envelope holds one.
envelope_data_unchecked(r) ==
    IF r.kind = "raise" THEN r
    ELSE IF IsNone(r.value) THEN Return(None)
    ELSE IF "data" \in DOMAIN r.value.v THEN Return(r.value.v["data"])
    ELSE Return(None)

\* The envelope check every endpoint but getEssList applies to r:
\*   if r is not None: if r['code'] == 200: return r['data']
\*                     else: logger.error(... r['code'] ... r['msg'])
envelope_data(r) ==
    IF r.kind = "raise" THEN r
    ELSE IF IsNone(r.value) THEN Return(None)
    ELSE LET code == Subscript(r.value, "code") IN
         IF code.kind = "raise" THEN code
         ELSE IF code.value = PyInt(CODE_OK) THEN Subscript(r.value, "data")
         ELSE LET msg == Subscript(r.value, "msg") IN
              IF msg.kind = "raise" THEN msg ELSE Return(None)

get_last_power_data(resp) == envelope_data(get_request(resp))
get_one_date_energy(resp) == envelope_data(get_request(resp))
get_one_date_power_by_sn(resp) == envelope_data(get_request(resp))
get_in_charge_config_info(resp) == envelope_data(get_request(resp))
get_out_charge_config_info(resp) == envelope_data(get_request(resp))

\* [item['sysSn'] for item in data]: the list, or the first exception.
SysSnOf(items) ==
    LET subs == [i \in 1..Len(items) |-> Subscript(items[i], "sysSn")]
        bad == {i \in 1..Len(items) : subs[i].kind = "raise"}
    IN  IF bad # {} THEN subs[CHOOSE i \in bad : \A j \in bad : i <= j]
        ELSE Return(PyList([i \in 1..Len(items) |-> subs[i].value]))

\* get_ess_list: the outcome and the value of self.sys_sn_list after it.
get_ess_list(resp, sn_list) ==
    LET r == get_request(resp)
        keep(o) == [outcome |-> o, sys_sn_list |-> sn_list]
    IN  IF r.kind = "raise" THEN keep(r)
        ELSE IF IsNone(r.value) THEN keep(Return(None))
        ELSE LET code == Subscript(r.value, "code") IN
             IF code.kind = "raise" THEN keep(code)
             ELSE IF code.value = PyInt(CODE_OK) THEN
                  LET data == Subscript(r.value, "data") IN
                  IF data.kind = "raise" THEN keep(data)
                  ELSE IF data.value.t = "list" THEN
                       LET sns == SysSnOf(data.value.v) IN
                       IF sns.kind = "raise" THEN keep(sns)
                       ELSE [outcome |-> Return(data.value), sys_sn_list |-> sns.value]
                  ELSE LET sn == Subscript(data.value, "sysSn") IN
                       IF sn.kind = "raise" THEN keep(sn)
                       ELSE [outcome |-> Return(PyList(<<data.value>>)),
                             sys_sn_list |-> sn.value]
             ELSE LET msg == Subscript(r.value, "msg") IN
                  IF msg.kind = "raise" THEN keep(msg) ELSE keep(Return(None))

(***************************************************************************)
(* State                                                                   *)
(***************************************************************************)
VARIABLES
    tel,                \* the module globals of lines 18-26, by name
    current_screen,     \* line 34
    now,                \* the wall clock read by datetime.now(), in sleeps
    pc,                 \* the line each thread is at
    current_power_data, \* locals of poll_alphaess
    energy_stats,
    Himage,             \* per thread: the image print_to_epaper is drawing
    epd_buffer,         \* the layout of the image last handed to epd.display_Base
    inFlight,           \* the threads inside epd.display_Base
    tick,               \* history: the number of the current poll tick
    origin,             \* history: the tick that wrote each global
    presses,            \* history: the number of button presses so far
    lastPress,          \* history: the button of the latest press, 0 if none
    sys_sn_list,        \* AlphaESSAPI.sys_sn_list
    api_call,           \* history: the latest direct call of an endpoint
    alpha,              \* the AlphaESSAPI object of line 179: its four fields
    request             \* history: the latest HTTP request sent

vars == <<tel, current_screen, now, pc, current_power_data, energy_stats, Himage,
          epd_buffer, inFlight, tick, origin, presses, lastPress, sys_sn_list,
          api_call, alpha, request>>

apiVars == <<sys_sn_list, api_call>>
clientVars == <<alpha, request>>
pollLocals == <<current_power_data, energy_stats>>
renderVars == <<Himage, epd_buffer, inFlight>>
buttonHistory == <<presses, lastPress>>

Threads == {"poll", "button"}

PowerGlobals == {"current_power_production", "battery_level", "grid_power",
                 "battery_power", "current_load"}
EnergyGlobals == {"power_generation", "output_to_grid", "input_from_grid"}
Globals == PowerGlobals \cup EnergyGlobals \cup {"current_datetime"}

\* A local variable that holds no value the code can still read: not bound
\* yet, or bound by a tick whose try block has been left (lines 186-193 are
\* the only readers of the two locals, and each tick binds them anew first).
Unbound == [t |-> "unbound", v |-> 0]

\* The state with the main thread at line l and the object a.
Started(l, a) ==
    /\ tel = [g \in Globals |-> PyInt(0)]
    /\ current_screen = 1
    /\ now = 0
    /\ pc = [poll |-> l, button |-> "idle"]
    /\ current_power_data = Unbound
    /\ energy_stats = Unbound
    /\ Himage = [t \in Threads |-> <<>>]
    /\ epd_buffer = <<>>
    /\ inFlight = {}
    /\ tick = 0
    /\ origin = [g \in Globals |-> 0]
    /\ presses = 0
    /\ lastPress = 0
    /\ sys_sn_list = None
    /\ api_call = [op |-> "none"]
    /\ alpha = a
    /\ request = NoRequest

\* The process at the top of the poll loop, constructed from a complete
\* configuration file.
Init == Started("L184", AlphaESSAPI_init(ConfigFile(ValidLines)).value)

\* The process as poll_alphaess is entered, before line 179.
InitStart == Started("L179", NotConstructed)

\* The process lives until an exception leaves poll_alphaess.
alive == pc["poll"] # "terminated"

goto(t, l) == pc' = [pc EXCEPT ![t] = l]

(***************************************************************************)
(* poll_alphaess, lines 181-206                                            *)
(***************************************************************************)
\* The outcome of an endpoint operation called at clock `now`: the exception
\* raised while the request is signed, else outcome o of the response.
Signed(method, path, o) ==
    LET rq == http_request(method, path, alpha, now) IN
    IF rq.kind = "raise" THEN rq ELSE o

\* The request the operation sends, if signing does not raise.
Sent(method, path) ==
    LET rq == http_request(method, path, alpha, now) IN
    request' = IF rq.kind = "raise" THEN request ELSE rq.value

\* Line 179: alpha = AlphaESSAPI().  An exception leaves poll_alphaess.
PollConstruct ==
    /\ pc["poll"] = "L179"
    /\ \E file \in ConfigFiles :
         LET o == AlphaESSAPI_init(file) IN
         IF o.kind = "raise"
         THEN goto("poll", "terminated") /\ UNCHANGED <<alpha, sys_sn_list>>
         ELSE goto("poll", "L184") /\ alpha' = o.value /\ sys_sn_list' = None
    /\ UNCHANGED <<tel, current_screen, now, pollLocals, renderVars, tick, origin,
                   buttonHistory, api_call, request>>

\* Line 184.  An exception from the call lands in the except clause of line
\* 196, which prints and falls through to line 200.
PollGetPower ==
    /\ pc["poll"] = "L184"
    /\ tick < MaxTicks
    /\ tick' = tick + 1
    /\ \E resp \in HttpResponses(PowerPayloads) :
         LET o == Signed("GET", "getLastPowerData", get_last_power_data(resp)) IN
         IF o.kind = "raise"
         THEN goto("poll", "L200") /\ current_power_data' = Unbound
         ELSE goto("poll", "L185") /\ current_power_data' = o.value
    /\ Sent("GET", "getLastPowerData")
    /\ UNCHANGED <<tel, current_screen, now, energy_stats, renderVars, origin,
                   buttonHistory, apiVars, alpha>>

\* Line 185.
PollGetEnergy ==
    /\ pc["poll"] = "L185"
    /\ \E resp \in HttpResponses(EnergyPayloads) :
         LET o == Signed("GET", "getOneDateEnergyBySn", get_one_date_energy(resp)) IN
         IF o.kind = "raise"
         THEN goto("poll", "L200") /\ energy_stats' = Unbound
                                   /\ current_power_data' = Unbound
         ELSE goto("poll", "L186") /\ energy_stats' = o.value
                                   /\ UNCHANGED current_power_data
    /\ Sent("GET", "getOneDateEnergyBySn")
    /\ UNCHANGED <<tel, current_screen, now, renderVars, tick,
                   origin, buttonHistory, apiVars, alpha>>

\* Lines 186-193: global = source.get(key), one line each.
Assignments ==
    [L186 |-> [global |-> "current_power_production", key |-> "ppv", from |-> "power", next |-> "L187"],
     L187 |-> [global |-> "battery_level", key |-> "soc", from |-> "power", next |-> "L188"],
     L188 |-> [global |-> "grid_power", key |-> "pgrid", from |-> "power", next |-> "L189"],
     L189 |-> [global |-> "battery_power", key |-> "pbat", from |-> "power", next |-> "L190"],
     L190 |-> [global |-> "current_load", key |-> "pload", from |-> "power", next |-> "L191"],
     L191 |-> [global |-> "power_generation", key |-> "epv", from |-> "energy", next |-> "L192"],
     L192 |-> [global |-> "output_to_grid", key |-> "eOutput", from |-> "energy", next |-> "L193"],
     L193 |-> [global |-> "input_from_grid", key |-> "eInput", from |-> "energy", next |-> "L194"]]

PollAssign ==
    /\ pc["poll"] \in DOMAIN Assignments
    /\ LET a == Assignments[pc["poll"]]
           d == IF a.from = "power" THEN current_power_data ELSE energy_stats
           o == DictGet(d, a.key)
       IN  IF o.kind = "raise"
           THEN /\ goto("poll", "L200")
                /\ current_power_data' = Unbound
                /\ energy_stats' = Unbound
                /\ UNCHANGED <<tel, origin>>
           ELSE /\ goto("poll", a.next)
                /\ tel' = [tel EXCEPT ![a.global] = o.value]
                /\ origin' = [origin EXCEPT ![a.global] = tick]
                /\ UNCHANGED pollLocals
    /\ UNCHANGED <<current_screen, now, renderVars, tick, buttonHistory, apiVars, clientVars>>

\* Line 194.
PollStamp ==
    /\ pc["poll"] = "L194"
    /\ tel' = [tel EXCEPT !["current_datetime"] = PyInt(now)]
    /\ origin' = [origin EXCEPT !["current_datetime"] = tick]
    /\ goto("poll", "L200")
    /\ current_power_data' = Unbound
    /\ energy_stats' = Unbound
    /\ UNCHANGED <<current_screen, now, renderVars, tick, buttonHistory, apiVars, clientVars>>

\* print_to_console, lines 209-235: the two comparisons of lines 220 and 226
\* raise on a value that is no number; nothing catches that in the loop.
print_to_console ==
    IF LessThanZero(tel["battery_power"]).kind = "raise" THEN Raise("TypeError")
    ELSE IF LessThanZero(tel["grid_power"]).kind = "raise" THEN Raise("TypeError")
    ELSE Return(None)

\* Line 200.
PollConsole ==
    /\ pc["poll"] = "L200"
    /\ IF print_to_console.kind = "raise"
       THEN goto("poll", "terminated")
       ELSE goto("poll", "L242")
    /\ UNCHANGED <<tel, current_screen, now, pollLocals, renderVars, tick, origin,
                   buttonHistory, apiVars, clientVars>>

\* Line 206: time.sleep(30), then the next iteration.
PollSleep ==
    /\ pc["poll"] = "L206"
    /\ tick < MaxTicks
    /\ now' = now + 1
    /\ goto("poll", "L184")
    /\ UNCHANGED <<tel, current_screen, pollLocals, renderVars, tick, origin,
                   buttonHistory, apiVars, clientVars>>

(***************************************************************************)
(* print_to_epaper, lines 238-267, run by thread t                         *)
(***************************************************************************)
\* One draw.text call: what it writes, and (history) the tick its value
\* came from.
Item(label, global, value, suffix, src) ==
    [label |-> label, global |-> global, value |-> value, suffix |-> suffix,
     src |-> src]

\* The draw.text lines that print str(global) between a label and a suffix.
Draws ==
    [L243 |-> [label |-> "P: ", global |-> "current_power_production", suffix |-> " w", next |-> "L244"],
     L244 |-> [label |-> "L: ", global |-> "current_load", suffix |-> " w", next |-> "L245"],
     L245 |-> [label |-> "B: ", global |-> "battery_level", suffix |-> "%", next |-> "L246"],
     L248 |-> [label |-> "Production: ", global |-> "current_power_production", suffix |-> " w", next |-> "L249"],
     L249 |-> [label |-> "Battery: ", global |-> "battery_level", suffix |-> "%", next |-> "L250"],
     L250 |-> [label |-> "Load: ", global |-> "current_load", suffix |-> " w", next |-> "L252"],
     L255 |-> [label |-> "Power from Battery: ", global |-> "battery_power", suffix |-> " w", next |-> "L257"],
     L260 |-> [label |-> "Power from Grid: ", global |-> "grid_power", suffix |-> " w", next |-> "L262"],
     L262 |-> [label |-> "Power Generation: ", global |-> "power_generation", suffix |-> " kWh", next |-> "L263"],
     L263 |-> [label |-> "Output to Grid: ", global |-> "output_to_grid", suffix |-> " kWh", next |-> "L264"],
     L264 |-> [label |-> "Input from Grid: ", global |-> "input_from_grid", suffix |-> " kWh", next |-> "L267"]]

\* The draw.text lines that print str(global * -1).
NegatedDraws ==
    [L253 |-> [label |-> "Power to Battery: ", global |-> "battery_power", suffix |-> " w", next |-> "L257"],
     L258 |-> [label |-> "Power to Grid: ", global |-> "grid_power", suffix |-> " w", next |-> "L262"]]

\* The tests global < 0 of lines 252 and 257.
SignTests ==
    [L252 |-> [global |-> "battery_power", neg |-> "L253", pos |-> "L255"],
     L257 |-> [global |-> "grid_power", neg |-> "L258", pos |-> "L260"]]

\* Where print_to_epaper returns to: line 206 of the loop, or out of the
\* button handler.
RenderReturn(t) == IF t = "poll" THEN "L206" ELSE "idle"

\* Where an exception raised inside print_to_epaper leaves thread t: out of
\* poll_alphaess on the main thread; on the callback thread either the pin
\* factory reports it and goes on, or its dispatch thread dies with it.
RaiseTargets(t) == IF t = "poll" THEN {"terminated"} ELSE {"idle", "dead"}

\* One line of lines 239-264, run at line l on image img: the line control
\* goes to ("raise" for an exception) and the image after it.
RenderLine(l, img) ==
    IF l = "L242" THEN
        \* lines 239-242: a new blank image, the first test of current_screen
        [next |-> IF current_screen = 1 THEN "L243" ELSE "L247", img |-> <<>>]
    ELSE IF l = "L246" THEN
        \* the time of the render, not current_datetime
        [next |-> "L247",
         img |-> Append(img, Item("Last Update: ", "", PyInt(now), "", tick))]
    ELSE IF l = "L247" THEN
        [next |-> IF current_screen = 2 THEN "L248" ELSE "L267", img |-> img]
    ELSE IF l \in DOMAIN Draws THEN
        LET d == Draws[l] IN
        [next |-> d.next,
         img |-> Append(img, Item(d.label, d.global, tel[d.global], d.suffix,
                                  origin[d.global]))]
    ELSE IF l \in DOMAIN SignTests THEN
        LET s == SignTests[l]
            o == LessThanZero(tel[s.global])
        IN  IF o.kind = "raise" THEN [next |-> "raise", img |-> <<>>]
            ELSE [next |-> IF o.value THEN s.neg ELSE s.pos, img |-> img]
    ELSE
        \* lines 253 and 258: the global is read again and negated
        LET d == NegatedDraws[l]
            o == TimesMinusOne(tel[d.global])
        IN  IF o.kind = "raise" THEN [next |-> "raise", img |-> <<>>]
            ELSE [next |-> d.next,
                  img |-> Append(img, Item(d.label, d.global, o.value, d.suffix,
                                           origin[d.global]))]

BuildLines ==
    {"L242", "L246", "L247"}
    \cup DOMAIN Draws \cup DOMAIN NegatedDraws \cup DOMAIN SignTests

\* Whether thread t runs line l in the same step as the line before it.  The
\* lines between the two tests of current_screen read only globals that the
\* poll loop alone writes (tel, and the clock), so on the poll thread no
\* other thread's step can come between them and change what they read.  On
\* the callback thread every line is a step of its own.
SameStep(t, l) == t = "poll" /\ l \in BuildLines \ {"L242", "L247"}

RECURSIVE RenderRun(_, _, _)
RenderRun(t, l, img) ==
    LET r == RenderLine(l, img) IN
    IF SameStep(t, r.next) THEN RenderRun(t, r.next, r.img) ELSE r

\* Lines 239-264 on thread t.
RenderBuild(t) ==
    /\ alive
    /\ pc[t] \in BuildLines
    /\ LET r == RenderRun(t, pc[t], Himage[t]) IN
       /\ Himage' = [Himage EXCEPT ![t] = r.img]
       /\ IF r.next = "raise"
          THEN \E l \in RaiseTargets(t) : goto(t, l)
          ELSE goto(t, r.next)
    /\ UNCHANGED <<tel, current_screen, now, pollLocals, epd_buffer, inFlight,
                   tick, origin, buttonHistory, apiVars, clientVars>>

\* The layout of an image: the labels drawn on it, in order.  The driver is
\* handed the whole image; of the image it was handed last the model keeps
\* the layout, and what an image holds is observed on Himage at line 267.
Layout(img) == [i \in 1..Len(img) |-> img[i].label]

\* Line 267: epd.display_Base is entered with the finished image.
RenderPush(t) ==
    /\ alive
    /\ pc[t] = "L267"
    /\ epd_buffer' = Layout(Himage[t])
    /\ inFlight' = inFlight \cup {t}
    /\ goto(t, "L267d")
    /\ UNCHANGED <<tel, current_screen, now, pollLocals, Himage, tick, origin,
                   buttonHistory, apiVars, clientVars>>

\* Line 267: epd.display_Base returns, and so does print_to_epaper.
RenderDone(t) ==
    /\ alive
    /\ pc[t] = "L267d"
    /\ inFlight' = inFlight \ {t}
    /\ Himage' = [Himage EXCEPT ![t] = <<>>]
    /\ goto(t, RenderReturn(t))
    /\ UNCHANGED <<tel, current_screen, now, pollLocals, epd_buffer, tick, origin,
                   buttonHistory, apiVars, clientVars>>

print_to_epaper(t) ==
    \/ RenderBuild(t)
    \/ RenderPush(t)
    \/ RenderDone(t)

(***************************************************************************)
(* The button handlers, lines 270-285                                      *)
(***************************************************************************)
Buttons == {1, 2}

\* The line a press of button b enters its handler at.
HandlerEntry(b) == IF b = 1 THEN "L272" ELSE "L278"

\* when_pressed fires: the callback thread takes one press at a time.
Press(b) ==
    /\ alive
    /\ pc["button"] = "idle"
    /\ presses < MaxPresses
    /\ presses' = presses + 1
    /\ lastPress' = b
    /\ goto("button", HandlerEntry(b))
    /\ UNCHANGED <<tel, current_screen, now, pollLocals, renderVars, tick, origin,
                   apiVars, clientVars>>

\* first_button_handler without its call of print_to_epaper: the page is
\* set and the handler returns.
first_button_handler_no_render ==
    /\ alive
    /\ pc["button"] = "L272"
    /\ current_screen' = 1
    /\ goto("button", "idle")
    /\ UNCHANGED <<tel, now, pollLocals, renderVars, tick, origin, buttonHistory,
                   apiVars, clientVars>>

\* Line 272: current_screen = 1, then print_to_epaper().
first_button_handler ==
    /\ alive
    /\ pc["button"] = "L272"
    /\ current_screen' = 1
    /\ goto("button", "L242")
    /\ UNCHANGED <<tel, now, pollLocals, renderVars, tick, origin, buttonHistory,
                   apiVars, clientVars>>

\* second_button_handler as a copy of the first handler with the page left
\* unchanged.
second_button_handler_page1 ==
    /\ alive
    /\ pc["button"] = "L278"
    /\ current_screen' = 1
    /\ goto("button", "L242")
    /\ UNCHANGED <<tel, now, pollLocals, renderVars, tick, origin, buttonHistory,
                   apiVars, clientVars>>

\* Line 278: current_screen = 2, then print_to_epaper().
second_button_handler ==
    /\ alive
    /\ pc["button"] = "L278"
    /\ current_screen' = 2
    /\ goto("button", "L242")
    /\ UNCHANGED <<tel, now, pollLocals, renderVars, tick, origin, buttonHistory,
                   apiVars, clientVars>>

PollStep ==
    \/ PollGetPower
    \/ PollGetEnergy
    \/ PollAssign
    \/ PollStamp
    \/ PollConsole
    \/ print_to_epaper("poll")
    \/ PollSleep

ButtonStep ==
    \/ \E b \in Buttons : Press(b)
    \/ first_button_handler
    \/ second_button_handler
    \/ print_to_epaper("button")

Next == PollStep \/ ButtonStep

Spec == Init /\ [][Next]_vars

\* Every step of the callback thread once a press has been taken: the
\* handler's assignment and its call of print_to_epaper.
ButtonRun ==
    \/ first_button_handler
    \/ second_button_handler
    \/ print_to_epaper("button")

\* The main thread is inside an outbound HTTP call (lines 184, 185) or inside
\* its sleep (line 206).
PollBlocked == pc["poll"] \in {"L184", "L185", "L206"}

\* The runs in which presses arrive while the main thread is blocked and the
\* main thread stays blocked for as long as a handler runs: it moves on only
\* between two callbacks.
StalledPollStep == pc["button"] = "idle" /\ PollStep
StalledPress == PollBlocked /\ \E b \in Buttons : Press(b)

NextStalled ==
    \/ StalledPollStep
    \/ StalledPress
    \/ ButtonRun

\* The callback thread is an operating-system thread of its own (gpiozero's
\* event thread, lines 282-285): it is scheduled whether or not the main
\* thread runs, and time.sleep and the awaited HTTP call both release the
\* interpreter.  Nothing is assumed of the main thread, which may stay at a
\* line for ever.
SpecStalled == Init /\ [][NextStalled]_vars /\ WF_vars(ButtonRun)

(***************************************************************************)
(* The endpoint operations of AlphaESSAPI called directly, one call per    *)
(* step, each on a response drawn from the responses of its endpoint.      *)
(***************************************************************************)
HistoryPayloads == {None, PyList(<<>>), PyList(<<PowerA>>)}
ConfigPayloads == {None, PyDict([gridCharge |-> PyInt(1)])}

mainVars == <<tel, current_screen, now, pc, current_power_data, energy_stats,
              Himage, epd_buffer, inFlight, tick, origin, presses, lastPress>>

Called(op, method, path, resp, o) ==
    /\ api_call' = [op |-> op, resp |-> resp, outcome |-> Signed(method, path, o),
                    sn_before |-> sys_sn_list]
    /\ Sent(method, path)

ApiGetEssList ==
    /\ \E resp \in HttpResponses(EssPayloads) :
         LET r == get_ess_list(resp, sys_sn_list) IN
         /\ sys_sn_list' = IF Signed("GET", "getEssList", r.outcome).kind = "raise"
                           THEN sys_sn_list ELSE r.sys_sn_list
         /\ Called("get_ess_list", "GET", "getEssList", resp, r.outcome)
    /\ UNCHANGED <<mainVars, alpha>>

ApiGetLastPowerData ==
    /\ \E resp \in HttpResponses(PowerPayloads) :
         Called("get_last_power_data", "GET", "getLastPowerData", resp,
                get_last_power_data(resp))
    /\ UNCHANGED <<mainVars, sys_sn_list, alpha>>

ApiGetOneDateEnergy ==
    /\ \E resp \in HttpResponses(EnergyPayloads) :
         Called("get_one_date_energy", "GET", "getOneDateEnergyBySn", resp,
                get_one_date_energy(resp))
    /\ UNCHANGED <<mainVars, sys_sn_list, alpha>>

ApiGetOneDatePowerBySn ==
    /\ \E resp \in HttpResponses(HistoryPayloads) :
         Called("get_one_date_power_by_sn", "GET", "getOneDayPowerBySn", resp,
                get_one_date_power_by_sn(resp))
    /\ UNCHANGED <<mainVars, sys_sn_list, alpha>>

ApiGetInChargeConfigInfo ==
    /\ \E resp \in HttpResponses(ConfigPayloads) :
         Called("get_in_charge_config_info", "GET", "getInChargeConfigInfo", resp,
                get_in_charge_config_info(resp))
    /\ UNCHANGED <<mainVars, sys_sn_list, alpha>>

ApiGetOutChargeConfigInfo ==
    /\ \E resp \in HttpResponses(ConfigPayloads) :
         Called("get_out_charge_config_info", "GET", "getOutChargeConfigInfo", resp,
                get_out_charge_config_info(resp))
    /\ UNCHANGED <<mainVars, sys_sn_list, alpha>>

NextApi ==
    \/ ApiGetEssList
    \/ ApiGetLastPowerData
    \/ ApiGetOneDateEnergy
    \/ ApiGetOneDatePowerBySn
    \/ ApiGetInChargeConfigInfo
    \/ ApiGetOutChargeConfigInfo

SpecApi == Init /\ [][NextApi]_vars

(***************************************************************************)
(* The process from its start: line 179, then the poll loop alone.         *)
(***************************************************************************)
NextStart == PollConstruct \/ PollStep

SpecStart == InitStart /\ [][NextStart]_vars

(***************************************************************************)
(* __get_request and __post_request called directly, on any path, as the   *)
(* clock advances.                                                         *)
(***************************************************************************)
Paths == {"getEssList", "getLastPowerData"}

ClockStep ==
    /\ now < MaxClock
    /\ now' = now + 1
    /\ UNCHANGED <<tel, current_screen, pc, pollLocals, renderVars, tick, origin,
                   buttonHistory, apiVars, clientVars>>

SendGet ==
    /\ alpha.constructed
    /\ \E path \in Paths, resp \in HttpResponses({None}) :
         Called("__get_request", "GET", path, resp, get_request(resp))
    /\ UNCHANGED <<mainVars, sys_sn_list, alpha>>

SendPost ==
    /\ alpha.constructed
    /\ \E path \in Paths, resp \in HttpResponses({None}) :
         Called("__post_request", "POST", path, resp, post_request(resp))
    /\ UNCHANGED <<mainVars, sys_sn_list, alpha>>

NextSign ==
    \/ PollConstruct
    \/ ClockStep
    \/ SendGet
    \/ SendPost

SpecSign == InitStart /\ [][NextSign]_vars

(***************************************************************************)
(* Properties                                                              *)
(***************************************************************************)
Pages == {1, 2}

\* The labels print_to_epaper draws on page p.
LabelsOf(p) ==
    IF p = 1
    THEN {Draws[l].label : l \in {"L243", "L244", "L245"}} \cup {"Last Update: "}
    ELSE {Draws[l].label : l \in DOMAIN Draws \ {"L243", "L244", "L245"}}
         \cup {NegatedDraws[l].label : l \in DOMAIN NegatedDraws}

\* The pages a layout shows text of.
FramePages(layout) ==
    {p \in Pages : \E i \in 1..Len(layout) : layout[i] \in LabelsOf(p)}

\* Thread t is inside print_to_epaper.
Rendering(t) == pc[t] \in BuildLines \cup {"L267", "L267d"}

\* The page of the latest press, page 1 before any press.
PageOfLastPress == IF lastPress = 0 THEN 1 ELSE lastPress

ReturnsAbsent(o) == o.kind = "return" /\ IsNone(o.value)
SameValue(a, b) == a.t = b.t /\ a.v = b.v

\* C1: in a poll tick whose snapshot fetch or daily-totals fetch threw or
\* returned absent, no step changes any stored telemetry field (the five
\* power fields, the three energy fields, the last-update time).  A tick
\* whose fetch threw is at none of lines 186-194; a tick whose fetch
\* returned absent holds None in current_power_data or energy_stats.
C1_FailedFetchKeepsTelemetry ==
    [][(\/ pc["poll"] \notin DOMAIN Assignments \cup {"L194"}
        \/ IsNone(current_power_data)
        \/ IsNone(energy_stats)) => tel' = tel]_vars

\* C2: the poll loop never terminates: whatever a step of a tick does, no
\* exception leaves poll_alphaess.
C2_PollLoopNeverTerminates == pc["poll"] # "terminated"

\* C3: at most one render is in flight to the display driver at any time.
C3_OneRenderInFlight == Cardinality(inFlight) <= 1

\* C4: after a button press, once no render is in progress, the frame most
\* recently pushed to the display driver is the layout of the current page.
\* (Stated for the runs in which every stored field is a number, so that no
\* handler was cut short by an exception.)
C4_DisplayShowsCurrentPage ==
    (/\ presses > 0
     /\ pc["button"] = "idle"
     /\ ~Rendering("poll")
     /\ \A g \in Globals : tel[g].t = "int")
    => FramePages(epd_buffer) = {current_screen}

\* C5: a button callback, once it has set the current page to its own page,
\* goes on in the same callback to a pushed frame of that page: it leaves
\* print_to_epaper only through line 267, with an image of its page drawn
\* from the stored values, and none of its steps changes a telemetry field
\* or fetches.
C5_CallbackRendersItsPage ==
    /\ [](pc["button"] = "L267" =>
            /\ current_screen = lastPress
            /\ FramePages(Layout(Himage["button"])) = {lastPress})
    /\ [][pc'["button"] # pc["button"] =>
            /\ UNCHANGED <<tel, current_power_data, energy_stats, tick>>
            /\ pc["button"] \in BuildLines => pc'["button"] \in BuildLines \cup {"L267"}
            /\ pc["button"] \in DOMAIN Draws =>
                 Himage'["button"][Len(Himage'["button"])].value
                     = tel[Draws[pc["button"]].global]]_vars

\* C6: the current page is always one of the pages 1 and 2, is page 1 until
\* a button is pressed, equals the page of the most recently handled press,
\* and changes only in a step of a button handler (never in a poll tick).
C6_CurrentPage ==
    /\ [](/\ current_screen \in Pages
          /\ pc["button"] \notin {HandlerEntry(b) : b \in Buttons}
               => current_screen = PageOfLastPress)
    /\ [][current_screen' # current_screen =>
            /\ pc["button"] \in {HandlerEntry(b) : b \in Buttons}
            /\ pc'["button"] # pc["button"]
            /\ pc'["poll"] = pc["poll"]]_vars

\* C6's case: page 2 was selected and a later poll tick ran to its sleep.
C6_Witness ==
    /\ lastPress = 2
    /\ current_screen = 2
    /\ pc["button"] = "idle"
    /\ tick = MaxTicks
    /\ pc["poll"] = "L206"
    /\ origin["current_datetime"] = MaxTicks

\* C7: at the end of every poll tick the five power fields and the three
\* energy fields all come from the responses of one and the same tick.
\* (Stated for the states in which a tick has written every field, so that
\* no field still holds its start-up value.)
C7_TelemetryFromOneTick ==
    (/\ pc["poll"] = "L200"
     /\ \A g \in PowerGlobals \cup EnergyGlobals : origin[g] > 0)
    => \A g, h \in PowerGlobals \cup EnergyGlobals : origin[g] = origin[h]

\* C8: an endpoint operation whose response has a non-200 HTTP status or a
\* body that is not JSON returns None instead of raising.
C8_TransportFailureReturnsAbsent ==
    (/\ api_call.op # "none"
     /\ api_call.resp.status # HTTP_OK \/ ~api_call.resp.parseable)
    => ReturnsAbsent(api_call.outcome)

\* C9: an endpoint operation whose response is a well-formed envelope with
\* code other than 200 returns None, never the data payload, and leaves
\* sys_sn_list as it was.
C9_VendorFailureReturnsAbsent ==
    (/\ api_call.op # "none"
     /\ WellFormed(api_call.resp)
     /\ api_call.resp.body.v["code"].v # CODE_OK)
    => /\ ReturnsAbsent(api_call.outcome)
       /\ SameValue(sys_sn_list, api_call.sn_before)

\* C9's case: get_ess_list had stored serial numbers, and then a 200
\* response carried a failure code together with a data payload.
C9_Witness ==
    /\ api_call.op = "get_ess_list"
    /\ WellFormed(api_call.resp)
    /\ api_call.resp.status = HTTP_OK
    /\ api_call.resp.body.v["code"].v # CODE_OK
    /\ "data" \in DOMAIN api_call.resp.body.v
    /\ api_call.sn_before.t = "list"
    /\ Len(api_call.sn_before.v) = MaxSystems
    /\ ReturnsAbsent(api_call.outcome)

\* C10: on code 200 get_ess_list returns a one-element list for a single
\* object and all N objects in order for an array, and in both cases
\* sys_sn_list is the list of the returned systems' sysSn, in order.
C10_EssListNormalized ==
    (/\ api_call.op = "get_ess_list"
     /\ api_call.resp.parseable
     /\ api_call.resp.status = HTTP_OK
     /\ api_call.resp.body.v["code"].v = CODE_OK)
    => LET data == api_call.resp.body.v["data"]
           systems == IF data.t = "list" THEN data.v ELSE <<data>>
       IN  /\ api_call.outcome.kind = "return"
           /\ api_call.outcome.value.t = "list"
           /\ api_call.outcome.value.v = systems
           /\ sys_sn_list.t = "list"
           /\ sys_sn_list.v = [i \in 1..Len(systems) |-> systems[i].v["sysSn"]]

\* The items of the finished image thread t is about to hand to the driver.
FrameItems(t) == {Himage[t][i] : i \in 1..Len(Himage[t])}
SignedGlobals == {SignTests[l].global : l \in DOMAIN SignTests}
ToLabels == {NegatedDraws[l].label : l \in DOMAIN NegatedDraws}

\* C11: on every finished page-2 frame the battery line and the grid line
\* show a number that is never negative: "Power to ..." with the magnitude
\* of a negative reading, "Power from ..." with a reading of zero or more.
C11_DirectionalMagnitude ==
    \A t \in Threads : pc[t] = "L267" =>
        \A it \in FrameItems(t) : it.global \in SignedGlobals =>
            /\ it.value.t = "int"
            /\ it.value.v >= 0
            /\ it.label \in ToLabels => it.value.v > 0

\* C12: a frame finished before any snapshot has arrived shows no numeric
\* reading as telemetry: every reading on a finished frame was stored by a
\* poll tick, none is a start-up zero of lines 18-25.
C12_NoZeroTelemetryBeforeSnapshot ==
    \A t \in Threads : pc[t] = "L267" =>
        \A it \in FrameItems(t) : it.global \in Globals => it.src > 0

\* C16: every finished frame holds the layout of exactly one page, never
\* the text of both pages and never no page at all.
C16_FrameOfOnePage ==
    \A t \in Threads : pc[t] = "L267" =>
        Cardinality(FramePages(Layout(Himage[t]))) = 1

\* C17: the readings on a finished frame all come from one poll tick.
\* (Stated for the frames drawn while every stored field is from the
\* current tick, whose two fetches therefore both succeeded, and on which no
\* reading is a start-up value.)
C17_FrameFromOneTick ==
    \A t \in Threads :
        (/\ pc[t] = "L267"
         /\ \A g \in Globals : origin[g] = tick
         /\ \A it \in FrameItems(t) : it.global \in Globals => it.src > 0)
        => \A it, jt \in FrameItems(t) :
              (it.global \in Globals /\ jt.global \in Globals) => it.src = jt.src

\* C18: the "Last Update" time on a finished page-1 frame is the time of the
\* latest poll tick that stored telemetry, i.e. current_datetime.  (Stated
\* for the frames of the main thread, drawn after at least one tick has
\* stored telemetry.)
C18_LastUpdateIsLastSuccess ==
    (/\ pc["poll"] = "L267"
     /\ origin["current_datetime"] > 0)
    => \A it \in FrameItems("poll") : it.label = "Last Update: " =>
          SameValue(it.value, tel["current_datetime"])

\* The callback thread has handed the driver a frame of page b.
ButtonPushed(b) ==
    /\ pc["button"] = "L267d"
    /\ lastPress = b
    /\ current_screen = b
    /\ FramePages(epd_buffer) = {b}

\* C15: a press of button b taken while the poll loop is blocked in an HTTP
\* call or in its sleep is followed, for as long as the loop stays blocked,
\* by the callback thread pushing a frame of page b.
C15_ResponsiveWhileStalled ==
    \A b \in Buttons :
        (pc["button"] = HandlerEntry(b) /\ PollBlocked)
            ~> (ButtonPushed(b) \/ ~PollBlocked)

\* C15's case: page 2 was pushed by the callback thread while the main
\* thread was still inside the daily-totals call of a later tick.
C15_Witness ==
    /\ ButtonPushed(2)
    /\ pc["poll"] = "L185"
    /\ tick = MaxTicks

CredentialFields == {"BASEURL", "APPID", "APPSECRET", "SERIALNUMBER"}

\* C13: every request sent, by GET or by POST, carries exactly the headers
\* appId, timeStamp and sign, with appId the loaded app id and sign the
\* digest of app id + app secret + the timeStamp of that same request; the
\* timeStamp of a request is the clock at the step that sends it, so a
\* signature is never one made for an earlier clock; and the fields loaded
\* by the constructor never change afterwards.
C13_RequestsSignedAfresh ==
    /\ [](request.method # "none" =>
            /\ alpha.constructed
            /\ request.method \in {"GET", "POST"}
            /\ DOMAIN request.headers = {"appId", "timeStamp", "sign"}
            /\ request.headers.appId = alpha.APPID
            /\ request.headers.sign =
                 sha512_hexdigest(alpha.APPID \o alpha.APPSECRET
                                              \o request.headers.timeStamp))
    /\ [][request' # request =>
            request'.headers.timeStamp = ToString(UnixTime(now))]_vars
    /\ [][alpha.constructed => alpha' = alpha]_vars

\* C13's case: a POST sent at the latest clock, after the clock has moved
\* on from the time of construction.
C13_Witness ==
    /\ request.method = "POST"
    /\ now = MaxClock
    /\ request.headers.timeStamp = ToString(UnixTime(MaxClock))
    /\ request.headers.appId = OtherLines[2]
    /\ api_call.op = "__post_request"

\* C14: with configuration.conf missing, or leaving the base URL, the app
\* id, the app secret or the serial number empty, the process never sends a
\* request (as it must not enter the poll loop, whose lines 184 and 185 are
\* the only senders).
C14_ConfigurationFailureIsFatal ==
    (\/ ~alpha.constructed
     \/ \E f \in CredentialFields : alpha[f] = "")
    => request.method = "none"

====
